---- MODULE Spec2Model ----
(***************************************************************************)
(* Model of kno-url.c (Kusanagi Night Ops: URL Scrapper, C Edition).       *)
(*                                                                         *)
(* C strings are TLA+ strings; a character is a string of length 1.       *)
(* The interactive session of main() is a state machine whose position    *)
(* (pc) is the blocking call the process is waiting in; the string and    *)
(* list routines are operators computed the way the C code computes them. *)
(***************************************************************************)
EXTENDS Integers, Sequences, FiniteSets, TLC

(***************************************************************************)
(* <ctype.h> / <string.h> as used by the program                           *)
(***************************************************************************)

\* The characters the model uses, in increasing unsigned-char order.
CharOrder == "\t !\"'+,-./0123456789:<=>?ABCDEFGHIJKLMNOPQRSTUVWXYZ_abcdefghijklmnopqrstuvwxyz"

UpperChars == "ABCDEFGHIJKLMNOPQRSTUVWXYZ"

LowerChars == "abcdefghijklmnopqrstuvwxyz"

Ch(s, i) == SubSeq(s, i, i)

\* position of each character in the unsigned-char order (what strcmp compares)
CharCodes ==
    [c \in {Ch(CharOrder, i) : i \in 1..Len(CharOrder)} |->
        CHOOSE i \in 1..Len(CharOrder) : Ch(CharOrder, i) = c]

CharCode(c) == CharCodes[c]

isspace(c) == c \in {" ", "\t", "\n", "\r"}

isdigit(c) == c \in {"0", "1", "2", "3", "4", "5", "6", "7", "8", "9"}

DigitVal(c) == CHOOSE d \in 0..9 : Ch("0123456789", d + 1) = c

LowerOfUpper ==
    [c \in {Ch(UpperChars, i) : i \in 1..Len(UpperChars)} |->
        Ch(LowerChars, CHOOSE i \in 1..Len(UpperChars) : Ch(UpperChars, i) = c)]

tolower(c) == IF c \in DOMAIN LowerOfUpper THEN LowerOfUpper[c] ELSE c

RECURSIVE LowerStr(_)
LowerStr(s) == IF s = "" THEN "" ELSE tolower(Ch(s, 1)) \o LowerStr(Tail(s))

\* strncmp(s, p, strlen(p)) == 0
HasPrefix(s, p) == Len(s) >= Len(p) /\ SubSeq(s, 1, Len(p)) = p

\* strstr(s + (from-1), p): index of the first occurrence at or after from, 0 for NULL
StrStrFrom(s, p, from) ==
    LET hits == {i \in from..(Len(s) - Len(p) + 1) : SubSeq(s, i, i + Len(p) - 1) = p}
    IN IF hits = {} THEN 0 ELSE CHOOSE i \in hits : \A j \in hits : i <= j

strstr(s, p) == StrStrFrom(s, p, 1)

\* strchr(s + (from-1), c): index or 0
StrChrFrom(s, c, from) == StrStrFrom(s, c, from)

\* strrchr(s, c): index of the last occurrence or 0
strrchr(s, c) ==
    LET hits == {i \in 1..Len(s) : Ch(s, i) = c}
    IN IF hits = {} THEN 0 ELSE CHOOSE i \in hits : \A j \in hits : i >= j

\* strcmp(a, b) as -1 / 0 / 1: first differing byte decides, a proper prefix is smaller
strcmp(a, b) ==
    LET n == IF Len(a) < Len(b) THEN Len(a) ELSE Len(b)
        diff == {i \in 1..n : Ch(a, i) # Ch(b, i)}
    IN IF diff = {}
       THEN (IF Len(a) < Len(b) THEN -1 ELSE IF Len(a) > Len(b) THEN 1 ELSE 0)
       ELSE LET k == CHOOSE i \in diff : \A j \in diff : i <= j
            IN IF CharCode(Ch(a, k)) < CharCode(Ch(b, k)) THEN -1 ELSE 1

\* Case-insensitive substring search boolean
strcasestr_bool(haystack, needle) ==
    /\ needle # ""
    /\ Len(needle) <= Len(haystack)
    /\ \E i \in 1..(Len(haystack) - Len(needle) + 1) :
          \A j \in 1..Len(needle) :
             tolower(Ch(haystack, i + j - 1)) = tolower(Ch(needle, j))

(***************************************************************************)
(* URL normalization & token parsing                                       *)
(***************************************************************************)

\* NULL (a char* that points nowhere)
NULL == "<NULL>"

normalize_url(u) ==
    IF u = "" THEN NULL
    ELSE IF HasPrefix(u, "http://") \/ HasPrefix(u, "https://") THEN u
    ELSE IF HasPrefix(u, "www.") THEN "https://" \o u
    ELSE IF strstr(u, ".") # 0 \/ strstr(u, ":") # 0 THEN "https://" \o u
    ELSE u

\* index of the first character at or after p that satisfies / fails isspace, Len+1 if none
SkipSpace(s, p) ==
    LET stop == {i \in p..Len(s) : ~isspace(Ch(s, i))}
    IN IF stop = {} THEN Len(s) + 1 ELSE CHOOSE i \in stop : \A j \in stop : i <= j

SkipWord(s, p) ==
    LET stop == {i \in p..Len(s) : isspace(Ch(s, i))}
    IN IF stop = {} THEN Len(s) + 1 ELSE CHOOSE i \in stop : \A j \in stop : i <= j

\* the tokens split_tokens stores, scanning from position p, given count so far
RECURSIVE SplitFrom(_, _, _, _)
SplitFrom(line, p, count, max_tokens) ==
    IF p > Len(line) \/ count >= max_tokens THEN <<>>
    ELSE LET b == SkipSpace(line, p)
         IN IF b > Len(line) THEN <<>>
            ELSE LET e == SkipWord(line, b)
                 IN <<SubSeq(line, b, e - 1)>> \o SplitFrom(line, e + 1, count + 1, max_tokens)

split_tokens(line, max_tokens) == SplitFrom(line, 1, 0, max_tokens)

(***************************************************************************)
(* URL extraction                                                          *)
(***************************************************************************)

IsUrlEnd(c) == isspace(c) \/ c \in {"\"", "'", "<", ">"}

\* the loop with p = start + strlen(lit) in place of p = q: scanning resumes
\* right after the scheme literal
RECURSIVE ScanSchemeRescan(_, _, _)
ScanSchemeRescan(html, lit, p) ==
    LET start == StrStrFrom(html, lit, p)
    IN IF start = 0 THEN <<>>
       ELSE LET stop == {i \in start..Len(html) : IsUrlEnd(Ch(html, i))}
                q == IF stop = {} THEN Len(html) + 1
                     ELSE CHOOSE i \in stop : \A j \in stop : i <= j
            IN <<SubSeq(html, start, q - 1)>> \o ScanSchemeRescan(html, lit, start + Len(lit))

\* one while-loop of extract_urls_from_html: the tokens found from position p on
RECURSIVE ScanScheme(_, _, _)
ScanScheme(html, lit, p) ==
    LET start == StrStrFrom(html, lit, p)
    IN IF start = 0 THEN <<>>
       ELSE LET stop == {i \in start..Len(html) : IsUrlEnd(Ch(html, i))}
                q == IF stop = {} THEN Len(html) + 1
                     ELSE CHOOSE i \in stop : \A j \in stop : i <= j
            IN <<SubSeq(html, start, q - 1)>> \o ScanScheme(html, lit, q)

extract_urls_from_html(html) ==
    ScanScheme(html, "http://", 1) \o ScanScheme(html, "https://", 1)
        \o ScanScheme(html, "blob:", 1)

(***************************************************************************)
(* Categorization helpers                                                  *)
(***************************************************************************)

get_ext(url) ==
    LET p == strrchr(url, ".")
    IN IF p = 0 THEN ""
       ELSE IF StrChrFrom(url, "/", p) # 0 THEN ""
       ELSE SubSeq(url, p, Len(url))

\* sizeof(lower_ext)
LowerExtSize == 16

CAT_SCRIPTS == "SCRIPTS"

CAT_MEDIA == "MEDIA"

CAT_API == "API / ENDPOINTS"

CAT_DOCS == "DOCUMENTS / CONFIG"

CAT_HTML == "HTML / FRAMEWORK"

CAT_OTHER == "OTHER"

\* names[6]: the display order
names == <<CAT_SCRIPTS, CAT_MEDIA, CAT_API, CAT_DOCS, CAT_HTML, CAT_OTHER>>

categorize_url_ext_first(url) ==
    LET ext == get_ext(url)
        lower_ext == IF Len(ext) < LowerExtSize THEN LowerStr(ext) ELSE ""
    IN IF lower_ext \in {".js", ".mjs"} THEN CAT_SCRIPTS
       ELSE IF lower_ext \in {".png", ".jpg", ".jpeg", ".gif", ".svg", ".webp",
                              ".ico", ".mp4", ".mov", ".wav"} THEN CAT_MEDIA
       ELSE IF lower_ext \in {".json", ".xml", ".yml", ".yaml", ".pdf", ".txt",
                              ".doc", ".docx", ".csv"} THEN CAT_DOCS
       ELSE IF strstr(url, "/api/") # 0 \/ strcasestr_bool(url, "graphql") THEN CAT_API
       ELSE IF \/ lower_ext \in {".html", ".htm"}
               \/ strstr(url, ".bundle.js") # 0
               \/ strstr(url, ".chunk.js") # 0 THEN CAT_HTML
       ELSE CAT_OTHER

categorize_url(url) ==
    LET ext == get_ext(url)
        lower_ext == IF Len(ext) < LowerExtSize THEN LowerStr(ext) ELSE ""
    IN IF strstr(url, "/api/") # 0 \/ strcasestr_bool(url, "graphql") THEN CAT_API
       ELSE IF lower_ext \in {".js", ".mjs"} THEN CAT_SCRIPTS
       ELSE IF lower_ext \in {".png", ".jpg", ".jpeg", ".gif", ".svg", ".webp",
                              ".ico", ".mp4", ".mov", ".wav"} THEN CAT_MEDIA
       ELSE IF lower_ext \in {".json", ".xml", ".yml", ".yaml", ".pdf", ".txt",
                              ".doc", ".docx", ".csv"} THEN CAT_DOCS
       ELSE IF \/ lower_ext \in {".html", ".htm"}
               \/ strstr(url, ".bundle.js") # 0
               \/ strstr(url, ".chunk.js") # 0 THEN CAT_HTML
       ELSE CAT_OTHER

(***************************************************************************)
(* Sorting by extension                                                    *)
(***************************************************************************)

\* a UrlWithExt is a record [url, ext]
cmp_uwe_url_only(a, b) == strcmp(a.url, b.url)

cmp_uwe(a, b) ==
    LET c == strcmp(a.ext, b.ext)
    IN IF c # 0 THEN c ELSE strcmp(a.url, b.url)

\* qsort(with_ext, we_count, sizeof(UrlWithExt), cmp_uwe): cmp_uwe is a total
\* order on the records (ext is a suffix of url), so the result is the one
\* ascending arrangement; computed here by insertion.
RECURSIVE InsertSorted(_, _)
InsertSorted(sorted, x) ==
    IF sorted = <<>> THEN <<x>>
    ELSE IF cmp_uwe(x, Head(sorted)) <= 0 THEN <<x>> \o sorted
    ELSE <<Head(sorted)>> \o InsertSorted(Tail(sorted), x)

RECURSIVE qsort(_)
qsort(arr) ==
    IF arr = <<>> THEN <<>>
    ELSE InsertSorted(qsort(SubSeq(arr, 1, Len(arr) - 1)), arr[Len(arr)])

(***************************************************************************)
(* Duration parsing (1h30m, 90s, etc.)                                     *)
(***************************************************************************)

\* A long is held as [hi, lo] with value hi * 2^16 + lo and 0 <= lo < 2^16, so
\* that sums and products keep every bit of a value up to 2^47 and the cast to
\* unsigned int can drop the bits from 2^32 on.  A long of the program is 64
\* bits wide; the durations the model reads stay below 2^47.
Limb == 2 ^ 16

Long(n) == [hi |-> n \div Limb, lo |-> n % Limb]

\* x + y
LongAdd(x, y) ==
    [hi |-> x.hi + y.hi + ((x.lo + y.lo) \div Limb), lo |-> (x.lo + y.lo) % Limb]

\* x * k for a factor k of at most 3600
LongTimes(x, k) ==
    [hi |-> x.hi * k + ((x.lo * k) \div Limb), lo |-> (x.lo * k) % Limb]

\* x > 0
LongPositive(x) == x.hi > 0 \/ (x.hi = 0 /\ x.lo > 0)

\* x < 0
LongNegative(x) == x.hi < 0

\* (unsigned int)x with a 32-bit unsigned int: the value modulo 2^32
UnsignedInt(x) == [hi |-> x.hi % Limb, lo |-> x.lo]

\* sizeof(buf) in parse_duration_seconds
DurParseBufSize == 128

\* the copy loop: non-space characters, lower-cased, at most max of them
RECURSIVE StripLower(_, _)
StripLower(s, max) ==
    IF s = "" \/ max = 0 THEN ""
    ELSE IF isspace(Ch(s, 1)) THEN StripLower(Tail(s), max)
    ELSE tolower(Ch(s, 1)) \o StripLower(Tail(s), max - 1)

\* val = val * 10 + (buf[i] - '0') over a run of digits
RECURSIVE DecimalValue(_, _)
DecimalValue(digits, val) ==
    IF digits = "" THEN val
    ELSE DecimalValue(Tail(digits),
                      LongAdd(LongTimes(val, 10), Long(DigitVal(Ch(digits, 1)))))

\* atol on a string of digits whose value fits a long
atol(buf) == DecimalValue(buf, Long(0))

\* first index at or after i that holds no digit, Len+1 if none
DigitsEnd(buf, i) ==
    LET stop == {k \in i..Len(buf) : ~isdigit(Ch(buf, k))}
    IN IF stop = {} THEN Len(buf) + 1 ELSE CHOOSE k \in stop : \A j \in stop : k <= j

\* the same loop without the unit == '\0' case: digits must be followed by h, m or s
RECURSIVE DurationLoopStrict(_, _, _)
DurationLoopStrict(buf, i, total) ==
    IF i > Len(buf) THEN (IF LongPositive(total) THEN total ELSE Long(-1))
    ELSE IF ~isdigit(Ch(buf, i)) THEN Long(-1)
    ELSE LET e == DigitsEnd(buf, i)
             val == DecimalValue(SubSeq(buf, i, e - 1), Long(0))
             unit == IF e > Len(buf) THEN "" ELSE Ch(buf, e)
         IN IF unit = "h" THEN DurationLoopStrict(buf, e + 1, LongAdd(total, LongTimes(val, 3600)))
            ELSE IF unit = "m" THEN DurationLoopStrict(buf, e + 1, LongAdd(total, LongTimes(val, 60)))
            ELSE IF unit = "s" THEN DurationLoopStrict(buf, e + 1, LongAdd(total, val))
            ELSE Long(-1)

\* the while (buf[i]) loop, from index i with the running total
RECURSIVE DurationLoop(_, _, _)
DurationLoop(buf, i, total) ==
    IF i > Len(buf) THEN (IF LongPositive(total) THEN total ELSE Long(-1))
    ELSE IF ~isdigit(Ch(buf, i)) THEN Long(-1)
    ELSE LET e == DigitsEnd(buf, i)
             val == DecimalValue(SubSeq(buf, i, e - 1), Long(0))
             unit == IF e > Len(buf) THEN "" ELSE Ch(buf, e)
         IN IF unit = "h" THEN DurationLoop(buf, e + 1, LongAdd(total, LongTimes(val, 3600)))
            ELSE IF unit = "m" THEN DurationLoop(buf, e + 1, LongAdd(total, LongTimes(val, 60)))
            ELSE IF unit = "s" THEN DurationLoop(buf, e + 1, LongAdd(total, val))
            ELSE IF unit = "" THEN DurationLoop(buf, e, LongAdd(total, val))
            ELSE Long(-1)

parse_duration_seconds(s) ==
    IF s = "" THEN Long(-1)
    ELSE LET buf == StripLower(s, DurParseBufSize - 1)
         IN IF buf = "" THEN Long(-1)
            ELSE IF \A i \in 1..Len(buf) : isdigit(Ch(buf, i)) THEN atol(buf)
            ELSE DurationLoop(buf, 1, Long(0))

(***************************************************************************)
(* run_html_mode: flag parsing, filtering, grouping, rendering             *)
(***************************************************************************)

Min(a, b) == IF a < b THEN a ELSE b

\* strtok(val, ","): the non-empty pieces between commas, in order
RECURSIVE strtok_all(_)
strtok_all(val) ==
    IF val = "" THEN <<>>
    ELSE LET c == StrChrFrom(val, ",", 1)
         IN IF c = 0 THEN <<val>>
            ELSE IF c = 1 THEN strtok_all(Tail(val))
            ELSE <<SubSeq(val, 1, c - 1)>> \o strtok_all(SubSeq(val, c + 1, Len(val)))

\* while (*tok && isspace(*tok)) tok++
SkipLeadingSpace(tok) == SubSeq(tok, SkipSpace(tok, 1), Len(tok))

SearchTermsOf(val) ==
    SelectSeq([i \in 1..Len(strtok_all(val)) |-> SkipLeadingSpace(strtok_all(val)[i])],
              LAMBDA t : t # "")

NoFlags ==
    [use |-> {}, no_media_mode |-> FALSE, output_file |-> NULL, full_mode |-> FALSE,
     search_terms |-> <<>>]

\* the category a filter flag selects
FlagCategory(a) ==
    IF a = "-s" THEN CAT_SCRIPTS
    ELSE IF a = "-md" THEN CAT_MEDIA
    ELSE IF a = "-a" THEN CAT_API
    ELSE IF a = "-d" THEN CAT_DOCS
    ELSE IF a = "-ht" THEN CAT_HTML
    ELSE CAT_OTHER

\* the for loop over args at the top of run_html_mode, from index i
RECURSIVE ParseFlags(_, _, _)
ParseFlags(args_, i, f) ==
    IF i > Len(args_) THEN f
    ELSE LET a == args_[i]
         IN IF a \in {"-s", "-md", "-a", "-d", "-ht", "-O"}
            THEN ParseFlags(args_, i + 1, [f EXCEPT !.use = @ \cup {FlagCategory(a)}])
            ELSE IF a = "--no-media"
            THEN ParseFlags(args_, i + 1, [f EXCEPT !.no_media_mode = TRUE])
            ELSE IF a = "-o" /\ i + 1 <= Len(args_)
            THEN ParseFlags(args_, i + 2, [f EXCEPT !.output_file = args_[i + 1]])
            ELSE IF a = "--search" /\ i + 1 <= Len(args_)
            THEN ParseFlags(args_, i + 2,
                            [f EXCEPT !.search_terms = @ \o SearchTermsOf(args_[i + 1])])
            ELSE IF a = "--full"
            THEN ParseFlags(args_, i + 1, [f EXCEPT !.full_mode = TRUE])
            ELSE ParseFlags(args_, i + 1, f)

\* the search-term test of the filter loop (keep)
SearchKeeps(u, f) ==
    \/ Len(f.search_terms) = 0
    \/ \E st \in 1..Len(f.search_terms) : strcasestr_bool(u, f.search_terms[st])

\* one iteration of the filter loop, for URL u of category cat: TRUE when u
\* reaches the sl_add calls
FilterKeeps(u, cat, f) ==
    /\ SearchKeeps(u, f)
    /\ (f.use # {}) => cat \in f.use
    /\ f.no_media_mode => cat \notin f.use

\* the filter loop: the URLs that reach the sl_add calls, each with its category
FilterLoop(all, f) ==
    SelectSeq([j \in 1..Len(all) |-> [url |-> all[j], cat |-> categorize_url(all[j])]],
              LAMBDA r : FilterKeeps(r.url, r.cat, f))

UrlsOf(rs) == [j \in 1..Len(rs) |-> rs[j].url]

\* cat_scripts .. cat_other as the sl_add calls fill them, indexed like names
CategoryLists(kept) ==
    [c \in 1..6 |-> UrlsOf(SelectSeq(kept, LAMBDA r : r.cat = names[c]))]

Categorized(all, f) == CategoryLists(FilterLoop(all, f))

\* the lines one category adds to out_lines
GroupLines(c, cl) ==
    IF Len(cl) = 0 THEN <<>>
    ELSE LET with_ext == SelectSeq([j \in 1..Len(cl) |-> [url |-> cl[j], ext |-> get_ext(cl[j])]],
                                   LAMBDA r : r.ext # "")
             no_ext == SelectSeq(cl, LAMBDA u : get_ext(u) = "")
             sorted == qsort(with_ext)
         IN <<names[c]>> \o [j \in 1..Len(sorted) |-> sorted[j].url] \o no_ext \o <<"">>

\* for (int c = 0; c < 6; c++): out_lines from category c on
RECURSIVE RenderFrom(_, _)
RenderFrom(c, cl) ==
    IF c > 6 THEN <<>> ELSE GroupLines(c, cl[c]) \o RenderFrom(c + 1, cl)

RenderLines(cl) == RenderFrom(1, cl)

(***************************************************************************)
(* main: command parsing                                                   *)
(***************************************************************************)

\* char *tokens[64]; char *args[64]
MaxTokens == 64

\* char durbuf[128]
DurBufSize == 128

RECURSIVE JoinSp(_)
JoinSp(ts) ==
    IF ts = <<>> THEN ""
    ELSE IF Len(ts) = 1 THEN ts[1]
    ELSE ts[1] \o " " \o JoinSp(Tail(ts))

FirstIndex(S) == IF S = {} THEN 0 ELSE CHOOSE i \in S : \A j \in S : i <= j

\* URL parsing with the -u pair and the first non-flag token looked for
\* anywhere on the line
ParseUrlAnywhere(tokens) ==
    LET u == FirstIndex({k \in 1..(Len(tokens) - 1) : tokens[k] = "-u"})
        w == FirstIndex({k \in 1..Len(tokens) : Ch(tokens[k], 1) # "-"})
        i == FirstIndex({k \in 1..Len(tokens) :
                            \/ HasPrefix(tokens[k], "http://")
                            \/ HasPrefix(tokens[k], "https://")
                            \/ HasPrefix(tokens[k], "www.")})
    IN IF u # 0 THEN [url |-> normalize_url(tokens[u + 1]), arg_start |-> u + 1]
       ELSE IF w # 0 THEN [url |-> normalize_url(tokens[w]), arg_start |-> w]
       ELSE IF i # 0 THEN [url |-> normalize_url(tokens[i]), arg_start |-> i]
       ELSE [url |-> NULL, arg_start |-> 0]

\* URL parsing: the url and arg_start main() settles on
ParseUrl(tokens) ==
    IF tokens[1] = "-u" /\ Len(tokens) >= 2
    THEN [url |-> normalize_url(tokens[2]), arg_start |-> 2]
    ELSE IF Ch(tokens[1], 1) # "-"
    THEN [url |-> normalize_url(tokens[1]), arg_start |-> 1]
    ELSE LET i == FirstIndex({k \in 1..Len(tokens) :
                                 \/ HasPrefix(tokens[k], "http://")
                                 \/ HasPrefix(tokens[k], "https://")
                                 \/ HasPrefix(tokens[k], "www.")})
         IN IF i = 0 THEN [url |-> NULL, arg_start |-> 0]
            ELSE [url |-> normalize_url(tokens[i]), arg_start |-> i]

\* args[] as first filled from tokens[arg_start..]
ArgsFrom(tokens, arg_start) ==
    SubSeq(tokens, arg_start + 1, Min(Len(tokens), arg_start + MaxTokens))

ArgsOf(tokens) == ArgsFrom(tokens, ParseUrl(tokens).arg_start)

\* the -sd loop: index of the first -sd (0 if none), end of its duration run, durbuf
SdIndex(args_) == FirstIndex({i \in 1..Len(args_) : args_[i] = "-sd"})

SdEnd(args_, i) ==
    LET stop == {j \in (i + 1)..Len(args_) : Ch(args_[j], 1) = "-"}
    IN IF stop = {} THEN Len(args_) + 1 ELSE FirstIndex(stop)

SdDurbuf(args_, i) ==
    LET full == JoinSp(SubSeq(args_, i + 1, SdEnd(args_, i) - 1))
    IN SubSeq(full, 1, Min(Len(full), DurBufSize - 1))

valid_flags ==
    {"-s", "-md", "-a", "-d", "-ht", "-O", "--no-media", "--search", "--full",
     "-o", "-u", "-h", "--help"}

\* index of the first argument the unknown-flag loop reports, 0 if none
UnknownFlagIndex(args_) ==
    FirstIndex({i \in 1..Len(args_) : Ch(args_[i], 1) = "-" /\ args_[i] \notin valid_flags})

\* ans[0] == 'y' || ans[0] == 'Y', with any first character but 'n' taken as consent
AffirmativeUnlessN(ans) == ~HasPrefix(ans, "n")

\* ans[0] == 'y' || ans[0] == 'Y'
Affirmative(ans) == HasPrefix(ans, "y") \/ HasPrefix(ans, "Y")

\* the test with its sign slipped
SdWithoutNightOpsSlipped(sd, night) == LongNegative(sd) /\ ~night

\* if (sd_seconds >= 0 && !night_ops)
SdWithoutNightOps(sd, night) == ~LongNegative(sd) /\ ~night

\* if (night_ops && sd_seconds < 0)
NightOpsWithoutSd(sd, night) == night /\ LongNegative(sd)

\* if (night_ops && sd_seconds > 0), after run_html_mode returned
ScheduledNightOps(sd, night) == night /\ LongPositive(sd)

\* sleep((unsigned int)sd_seconds)
SleepArg(sd) == UnsignedInt(sd)

\* The command main() settles on for one line
Cmd(o, a, night, sd, bad) ==
    [outcome |-> o, args |-> a, night_ops |-> night, sd_seconds |-> sd, bad_flag |-> bad]

HasNightOps(a0) == \E k \in 1..Len(a0) : a0[k] = "--night-ops"

\* args[] once the -sd at index i and its duration run are cut out
RemoveSd(a0, i) == SubSeq(a0, 1, i - 1) \o SubSeq(a0, SdEnd(a0, i), Len(a0))

\* args[] once every --night-ops is cut out
RemoveNightOps(a1) == SelectSeq(a1, LAMBDA t : t # "--night-ops")

\* "Unknown flags detection", then the call of run_html_mode
UnknownFlagsOrRun(a2, night, sd, u) ==
    IF u # 0 THEN Cmd("err_unknown_flag", a2, night, sd, a2[u])
    ELSE Cmd("run_html_mode", a2, night, sd, NULL)

\* a network mode stub that steps aside for a scheduled night-ops line
NetModeUnlessScheduled(a2, night, sd) ==
    IF (\E k \in 1..Len(a2) : a2[k] = "-n") /\ ~night THEN Cmd("net_mode", a2, night, sd, NULL)
    ELSE UnknownFlagsOrRun(a2, night, sd, UnknownFlagIndex(a2))

\* "Network mode stub" and what follows it
NetModeOrLater(a2, night, sd) ==
    IF \E k \in 1..Len(a2) : a2[k] = "-n" THEN Cmd("net_mode", a2, night, sd, NULL)
    ELSE UnknownFlagsOrRun(a2, night, sd, UnknownFlagIndex(a2))

\* the two combination checks after the -sd loop and what follows them
NightOpsChecksOrLater(a1, night, sd) ==
    IF SdWithoutNightOps(sd, night) THEN Cmd("err_sd_without_night_ops", a1, night, sd, NULL)
    ELSE IF NightOpsWithoutSd(sd, night)
    THEN Cmd("err_night_ops_without_sd", a1, night, sd, NULL)
    ELSE NetModeOrLater(IF night THEN RemoveNightOps(a1) ELSE a1, night, sd)

\* the -sd loop once the duration sd was parsed
SdParsedOrLater(a0, night, i, sd) ==
    IF ~LongPositive(sd) THEN Cmd("err_sd_invalid", a0, night, sd, NULL)
    ELSE NightOpsChecksOrLater(RemoveSd(a0, i), night, sd)

\* the -sd loop once durbuf is filled
SdDurbufOrLater(a0, night, i, durbuf) ==
    IF durbuf = "" THEN Cmd("err_sd_requires_duration", a0, night, Long(-1), NULL)
    ELSE SdParsedOrLater(a0, night, i, parse_duration_seconds(durbuf))

\* the -sd loop: i is the index of the first -sd, 0 if there is none
SdLoopOrLater(a0, night, i) ==
    IF i = 0 THEN NightOpsChecksOrLater(a0, night, Long(-1))
    ELSE SdDurbufOrLater(a0, night, i, SdDurbuf(a0, i))

\* What main() decides for the argument list of a line with a detected URL,
\* from "Parse Night Ops & -sd duration" down to the call of run_html_mode.
CommandOfArgs(a0) == SdLoopOrLater(a0, HasNightOps(a0), SdIndex(a0))

CommandOf(tokens) == CommandOfArgs(ArgsOf(tokens))

(***************************************************************************)
(* The session: state                                                      *)
(***************************************************************************)

VARIABLES
    pc,            \* where main() is: loop_top, fgets_line, fgets_night_ops,
                   \* fgets_net_mode, fetch_html, exited; call / return for a
                   \* routine run on its own
    line,          \* the line fgets returned, newline stripped (NULL: none yet)
    ans,           \* the answer read at a y/N prompt (NULL: none, EOF: end of input)
    url,           \* char *url
    args,          \* args[0..aargc-1]
    night_ops,     \* int night_ops
    sd_seconds,    \* long sd_seconds
    outcome,       \* the message / branch that settled the line
    bad_flag,      \* the token named by "That flag does not exist"
    html,          \* what fetch_html returned (NULL: failure; NOT_CALLED)
    all_urls,      \* StrList all_urls
    out_lines,     \* what run_html_mode wrote to standard output
    files,         \* the files written through -o: a set of <<path, lines>>
    write_failed,  \* "Failed to write to ..." was reported for this line
    slept,         \* the argument of sleep(), Long(-1) when it was not called
    cleanup_calls, \* how many times night_ops_cleanup ran
    exe_exists,    \* the executable g_exe_path names is on disk
    dir_exists,    \* the .kno-url directory beside it is on disk
    exit_code,     \* what main() returned, -1 while it runs
    fn_arg,        \* argument of a routine run on its own
    fn_ret         \* its result

vars ==
    <<pc, line, ans, url, args, night_ops, sd_seconds, outcome, bad_flag, html,
      all_urls, out_lines, files, write_failed, slept, cleanup_calls, exe_exists,
      dir_exists, exit_code, fn_arg, fn_ret>>

EOF == "<EOF>"

NOT_CALLED == "<not called>"

\* the locals of one loop iteration, as they are before a line is read
LineLocalsReset ==
    /\ line' = NULL
    /\ ans' = NULL
    /\ url' = NULL
    /\ args' = <<>>
    /\ night_ops' = FALSE
    /\ sd_seconds' = Long(-1)
    /\ outcome' = "none"
    /\ bad_flag' = NULL
    /\ html' = NOT_CALLED
    /\ all_urls' = <<>>
    /\ out_lines' = <<>>
    /\ write_failed' = FALSE
    /\ slept' = Long(-1)

SessionInit ==
    /\ pc = "loop_top"
    /\ line = NULL
    /\ ans = NULL
    /\ url = NULL
    /\ args = <<>>
    /\ night_ops = FALSE
    /\ sd_seconds = Long(-1)
    /\ outcome = "none"
    /\ bad_flag = NULL
    /\ html = NOT_CALLED
    /\ all_urls = <<>>
    /\ out_lines = <<>>
    /\ files = {}
    /\ write_failed = FALSE
    /\ slept = Long(-1)
    /\ cleanup_calls = 0
    /\ exe_exists = TRUE
    /\ dir_exists \in BOOLEAN
    /\ exit_code = -1
    /\ fn_arg = NULL
    /\ fn_ret = NULL

Disk == <<files, exe_exists, dir_exists>>

Routine == <<fn_arg, fn_ret>>

(***************************************************************************)
(* The session: steps                                                      *)
(***************************************************************************)

\* night_ops_cleanup(): best effort, rmdir and remove may each fail
night_ops_cleanup(rmdir_ok, remove_ok) ==
    /\ dir_exists' = (dir_exists /\ ~rmdir_ok)
    /\ exe_exists' = (exe_exists /\ ~remove_ok)
    /\ cleanup_calls' = cleanup_calls + 1

\* for (;;) { printf("Main URL: "); ...: a fresh iteration blocks in fgets
LoopTop ==
    /\ pc = "loop_top"
    /\ pc' = "fgets_line"
    /\ LineLocalsReset
    /\ UNCHANGED <<Disk, cleanup_calls, exit_code, Routine>>

\* fgets returns NULL at the prompt: break, cleanup of curl, return 0
ReadEof ==
    /\ pc = "fgets_line"
    /\ pc' = "exited"
    /\ exit_code' = 0
    /\ outcome' = "end_of_input"
    /\ UNCHANGED <<line, ans, url, args, night_ops, sd_seconds, bad_flag, html,
                   all_urls, out_lines, write_failed, slept, Disk, cleanup_calls,
                   Routine>>

\* the iteration ends before a URL was parsed
EndLine(o) ==
    /\ outcome' = o
    /\ pc' = "loop_top"
    /\ UNCHANGED <<url, args, night_ops, sd_seconds, bad_flag>>

\* the line has URL u and main() settled on command c
TakeCommand(u, c) ==
    /\ url' = u
    /\ args' = c.args
    /\ night_ops' = c.night_ops
    /\ sd_seconds' = c.sd_seconds
    /\ bad_flag' = c.bad_flag
    /\ outcome' = c.outcome
    /\ pc' = IF c.outcome = "net_mode" THEN "fgets_net_mode"
             ELSE IF c.outcome = "run_html_mode" THEN "fetch_html"
             ELSE "loop_top"

\* fgets returns the line l: everything main() does with it up to the next
\* blocking call (a y/N prompt or the fetch) or the end of the iteration
ReadLine(l) ==
    /\ pc = "fgets_line"
    /\ line' = l
    /\ \E tokens \in {split_tokens(l, MaxTokens)} :
          IF l = "" \/ Len(tokens) = 0 THEN EndLine("no_url")
          ELSE IF Len(tokens) = 1 /\ tokens[1] \in {"-h", "--help"} THEN EndLine("help")
          ELSE IF Len(tokens) = 1 /\ tokens[1] = "--night-ops"
          THEN /\ outcome' = "night_ops_prompt"
               /\ pc' = "fgets_night_ops"
               /\ UNCHANGED <<url, args, night_ops, sd_seconds, bad_flag>>
          ELSE \E pu \in {ParseUrl(tokens)} :
                  IF pu.url = NULL
                  THEN /\ outcome' = "no_url"
                       /\ pc' = "loop_top"
                       /\ args' = ArgsFrom(tokens, pu.arg_start)
                       /\ UNCHANGED <<url, night_ops, sd_seconds, bad_flag>>
                  ELSE \E c \in {CommandOfArgs(ArgsFrom(tokens, pu.arg_start))} :
                          TakeCommand(pu.url, c)
    /\ UNCHANGED <<ans, html, all_urls, out_lines, write_failed, slept, Disk,
                   cleanup_calls, exit_code, Routine>>

\* the answer to "Proceed? [y/N]" of standalone --night-ops (a: a string or EOF)
NightOpsAnswer(a, rmdir_ok, remove_ok) ==
    /\ pc = "fgets_night_ops"
    /\ ans' = a
    /\ IF a # EOF /\ Affirmative(a)
       THEN /\ night_ops_cleanup(rmdir_ok, remove_ok)
            /\ outcome' = "night_ops_done"
            /\ exit_code' = 0
            /\ pc' = "exited"
       ELSE /\ outcome' = "night_ops_canceled"
            /\ pc' = "loop_top"
            /\ UNCHANGED <<exe_exists, dir_exists, cleanup_calls, exit_code>>
    /\ UNCHANGED <<line, url, args, night_ops, sd_seconds, bad_flag, html, all_urls,
                   out_lines, files, write_failed, slept, Routine>>

\* the answer to the network-mode warning: a stub either way
NetModeAnswer(a) ==
    /\ pc = "fgets_net_mode"
    /\ ans' = a
    /\ outcome' = IF a # EOF /\ Affirmative(a) THEN "net_mode_unsupported"
                  ELSE "net_mode_canceled"
    /\ pc' = "loop_top"
    /\ UNCHANGED <<line, url, args, night_ops, sd_seconds, bad_flag, html, all_urls,
                   out_lines, write_failed, slept, Disk, cleanup_calls, exit_code,
                   Routine>>

\* fopen(output_file, "w") succeeded: the file now holds exactly content
WriteFile(path, content) ==
    {e \in files : e[1] # path} \cup {<<path, content>>}

\* What run_html_mode produced: the branch it took, the URLs it extracted,
\* the lines it printed, and the file it tried to open for writing (NULL: none)
HtmlResult(o, all, lines, path) ==
    [outcome |-> o, all_urls |-> all, out_lines |-> lines, output_file |-> path]

\* the output block of run_html_mode for the rendered lines
OutputResult(f, all, lines) ==
    IF Len(lines) > 0 THEN HtmlResult("results", all, lines, f.output_file)
    ELSE HtmlResult("no_urls_matched", all, <<>>, NULL)

\* the filter, group and sort stages for the extracted URLs
FilterAndRender(f, all) == OutputResult(f, all, RenderLines(Categorized(all, f)))

\* run_html_mode once fetch_html returned body, with the parsed flags f
RunHtmlMode(f, body) ==
    IF body = NULL THEN HtmlResult("fetch_failed", <<>>, <<>>, NULL)
    ELSE IF f.full_mode THEN HtmlResult("full_dump", <<>>, <<body>>, f.output_file)
    ELSE FilterAndRender(f, extract_urls_from_html(body))

run_html_mode(args_, body) == RunHtmlMode(ParseFlags(args_, 1, NoFlags), body)

\* fetch_html returns body (NULL on failure): the rest of run_html_mode, then
\* the scheduled night-ops block of main().  fopen, rmdir and remove may fail.
FetchReturn(body) ==
    /\ pc = "fetch_html"
    /\ html' = body
    /\ \E r \in {run_html_mode(args, body)} :
          /\ outcome' = r.outcome
          /\ all_urls' = r.all_urls
          /\ out_lines' = r.out_lines
          /\ IF r.output_file = NULL THEN UNCHANGED <<files, write_failed>>
             ELSE \E writable \in BOOLEAN :
                     /\ files' = IF writable THEN WriteFile(r.output_file, r.out_lines)
                                 ELSE files
                     /\ write_failed' = ~writable
    /\ IF ScheduledNightOps(sd_seconds, night_ops)
       THEN /\ slept' = SleepArg(sd_seconds)
            /\ \E rmdir_ok \in BOOLEAN, remove_ok \in BOOLEAN :
                  night_ops_cleanup(rmdir_ok, remove_ok)
            /\ exit_code' = 0
            /\ pc' = "exited"
       ELSE /\ pc' = "loop_top"
            /\ UNCHANGED <<slept, exe_exists, dir_exists, cleanup_calls, exit_code>>
    /\ UNCHANGED <<line, ans, url, args, night_ops, sd_seconds, bad_flag, Routine>>

(***************************************************************************)
(* The operator's inputs and the specification of the session               *)
(***************************************************************************)

\* longest command line, in tokens
MaxTok == 4

TokenSeqs(T, n) == UNION {[1..k -> T] : k \in 0..n}

CmdTokens == {"x.com", "https://x.com", "90s", "0", "--night-ops", "-sd", "-n", "--bogus"}

CmdLines ==
    {JoinSp(ts) : ts \in TokenSeqs(CmdTokens, MaxTok)} \cup {" ", "-h", "--help"}

Answers == {"y", "Y", "yes", "n", "", "ny", EOF}

CmdPages == {"http://x/a.js", NULL}

ReadCmdLine == pc = "fgets_line" /\ \E l \in CmdLines : ReadLine(l)

AnswerNightOps == \E a \in Answers, rmdir_ok \in BOOLEAN, remove_ok \in BOOLEAN :
                      NightOpsAnswer(a, rmdir_ok, remove_ok)

AnswerNetMode == \E a \in Answers : NetModeAnswer(a)

FetchCmdPage == pc = "fetch_html" /\ \E body \in CmdPages : FetchReturn(body)

Init == SessionInit

Next ==
    \/ LoopTop
    \/ ReadEof
    \/ ReadCmdLine
    \/ AnswerNightOps
    \/ AnswerNetMode
    \/ FetchCmdPage

Spec == Init /\ [][Next]_vars

(***************************************************************************)
(* The session on -sd durations                                            *)
(***************************************************************************)

\* longest -sd argument, in characters
MaxDurLen == 4

DurChars == {"0", "1", "3", "h", "m", "S", "x", " "}

RECURSIVE ConcatChars(_)
ConcatChars(cs) == IF cs = <<>> THEN "" ELSE cs[1] \o ConcatChars(Tail(cs))

DurStrings == {ConcatChars(cs) : cs \in TokenSeqs(DurChars, MaxDurLen)}

DurLinePrefix == "x.com --night-ops -sd "

DurLines == {DurLinePrefix \o d : d \in DurStrings}

ReadDurLine == pc = "fgets_line" /\ \E l \in DurLines : ReadLine(l)

NextDuration ==
    \/ LoopTop
    \/ ReadEof
    \/ ReadDurLine
    \/ FetchCmdPage

SpecDuration == Init /\ [][NextDuration]_vars

(***************************************************************************)
(* The session on scrape lines                                             *)
(***************************************************************************)

\* most flag groups on a scrape line
MaxFlags == 2

\* most URLs on a fetched page
MaxUrls == 3

ScrapeFlagGroups == {"-s", "--no-media", "--search B,n"}

ScrapeLines == {JoinSp(<<"x.com">> \o gs) : gs \in TokenSeqs(ScrapeFlagGroups, MaxFlags)}

PageUrls == {"http://h/a.mjs", "http://h/b.js", "http://h/n", "http://h/m.x", "http://h/c"}

ScrapePages == {JoinSp(us) : us \in TokenSeqs(PageUrls, MaxUrls)} \cup {NULL}

ReadScrapeLine == pc = "fgets_line" /\ \E l \in ScrapeLines : ReadLine(l)

FetchScrapePage == pc = "fetch_html" /\ \E body \in ScrapePages : FetchReturn(body)

NextScrape ==
    \/ LoopTop
    \/ ReadEof
    \/ ReadScrapeLine
    \/ FetchScrapePage

SpecScrape == Init /\ [][NextScrape]_vars

(***************************************************************************)
(* Routines run on their own                                               *)
(***************************************************************************)

\* a routine is about to be called on one of the arguments in S
RoutineInit(at, S) ==
    /\ pc = at
    /\ fn_arg \in S
    /\ fn_ret = NULL
    /\ line = NULL
    /\ ans = NULL
    /\ url = NULL
    /\ args = <<>>
    /\ night_ops = FALSE
    /\ sd_seconds = Long(-1)
    /\ outcome = "none"
    /\ bad_flag = NULL
    /\ html = NOT_CALLED
    /\ all_urls = <<>>
    /\ out_lines = <<>>
    /\ files = {}
    /\ write_failed = FALSE
    /\ slept = Long(-1)
    /\ cleanup_calls = 0
    /\ exe_exists = TRUE
    /\ dir_exists = TRUE
    /\ exit_code = -1

Session ==
    <<line, ans, url, args, night_ops, sd_seconds, outcome, bad_flag, html, all_urls,
      out_lines, files, write_failed, slept, cleanup_calls, exe_exists, dir_exists,
      exit_code>>

\* most chunks of a page text
MaxChunks == 4

TextChunks == {"http://", "https://", "blob:", "a", " ", "\"", "<"}

ExtractTexts == {ConcatChars(cs) : cs \in TokenSeqs(TextChunks, MaxChunks)}

CallExtract ==
    /\ pc = "call_extract_urls_from_html"
    /\ fn_ret' = extract_urls_from_html(fn_arg)
    /\ pc' = "return_extract_urls_from_html"
    /\ UNCHANGED <<fn_arg, Session>>

SpecExtract ==
    RoutineInit("call_extract_urls_from_html", ExtractTexts) /\ [][CallExtract]_vars

\* most chunks of a URL after its host
MaxUrlChunks == 3

UrlChunks == {"/api/", "/GraphQL", "/x", ".json", ".JS", ".png", ".htm", ".bundle.js"}

CategorizeUrls == {"https://h" \o ConcatChars(cs) : cs \in TokenSeqs(UrlChunks, MaxUrlChunks)}

CallCategorize ==
    /\ pc = "call_categorize_url"
    /\ fn_ret' = categorize_url(fn_arg)
    /\ pc' = "return_categorize_url"
    /\ UNCHANGED <<fn_arg, Session>>

SpecCategorize ==
    RoutineInit("call_categorize_url", CategorizeUrls) /\ [][CallCategorize]_vars

(***************************************************************************)
(* Properties of the session                                               *)
(***************************************************************************)

\* the tokens of the line the current iteration read
LineTokens == IF line = NULL THEN <<>> ELSE split_tokens(line, MaxTokens)

Carries(tokens, t) == \E k \in 1..Len(tokens) : tokens[k] = t

\* the response began with y or Y
BeganWithY(a) == a # EOF /\ a # NULL /\ Len(a) >= 1 /\ Ch(a, 1) \in {"y", "Y"}

\* some -sd of the line is followed by a run of non-flag tokens that reads as
\* a duration of at least one second
CarriesPositiveSd(tokens) ==
    \E k \in 1..Len(tokens) :
        /\ tokens[k] = "-sd"
        /\ SdDurbuf(tokens, k) # ""
        /\ LongPositive(parse_duration_seconds(SdDurbuf(tokens, k)))

\* C1: cleanup has been attempted only if the line was the single token
\* --night-ops and the response began with y/Y, or the line had a detected
\* URL, carried --night-ops and carried -sd with a duration that parsed to a
\* value > 0.
C1_CleanupOnlyOnNightOpsShapes ==
    cleanup_calls > 0 =>
        \/ /\ LineTokens = <<"--night-ops">>
           /\ BeganWithY(ans)
        \/ /\ url # NULL
           /\ Carries(LineTokens, "--night-ops")
           /\ CarriesPositiveSd(LineTokens)
           /\ LongPositive(sd_seconds)

\* the scheduled shape of C1 has run: scrape, sleep, cleanup, exit
C1_Witness ==
    /\ pc = "exited"
    /\ cleanup_calls = 1
    /\ LongPositive(slept)
    /\ Carries(LineTokens, "-sd")

\* C3: whenever the fetch for a scrape line fails the line is discarded and
\* the session continues: no sleep, no cleanup, no termination, and the
\* session is back at the prompt, for every flag combination on the line.
C3_FetchFailureContinues ==
    html = NULL =>
        /\ pc = "loop_top"
        /\ slept = Long(-1)
        /\ cleanup_calls = 0
        /\ exit_code = -1

\* the flag set the command parser is documented to recognize
RecognizedFlags ==
    {"-s", "-md", "-a", "-d", "-ht", "-O", "--no-media", "--search", "--full",
     "-o", "-u", "--night-ops", "-sd", "-n", "-h", "--help"}

UnknownTokens(a) ==
    {a[k] : k \in {j \in 1..Len(a) : Ch(a[j], 1) = "-" /\ a[j] \notin RecognizedFlags}}

\* C4: for any line with a detected URL whose argument list contains a token
\* beginning with - that is not a recognized flag, the outcome is the
\* unknown-flag rejection naming that token, whatever else the line contains.
C4_UnknownFlagRejectedFirst ==
    (url # NULL /\ UnknownTokens(ArgsOf(LineTokens)) # {}) =>
        /\ outcome = "err_unknown_flag"
        /\ bad_flag \in UnknownTokens(ArgsOf(LineTokens))

\* the line was turned down: a rejection was reported, nothing was fetched,
\* no sleep and no cleanup happened, and the loop goes on to the next prompt
RejectedLine(reasons) ==
    /\ outcome \in reasons
    /\ pc = "loop_top"
    /\ html = NOT_CALLED
    /\ slept = Long(-1)
    /\ cleanup_calls = 0
    /\ exit_code = -1

SdRejections ==
    {"no_url", "err_sd_requires_duration", "err_sd_invalid", "err_sd_without_night_ops"}

\* C5 as stated: every input line that contains -sd and does not contain
\* --night-ops is rejected, with no fetch, no sleep and no cleanup.
C5_AnySdLineRejected ==
    (Carries(LineTokens, "-sd") /\ ~Carries(LineTokens, "--night-ops")) =>
        RejectedLine(SdRejections)

\* C5: every input line that contains -sd and does not contain --night-ops is
\* rejected, with no fetch, no sleep and no cleanup, unless a URL was detected
\* and every -sd of the line precedes it (tokens before the detected URL are
\* not part of the argument list).
C5_SdInArgsRejected ==
    (/\ Carries(LineTokens, "-sd")
     /\ ~Carries(LineTokens, "--night-ops")
     /\ (ParseUrl(LineTokens).url # NULL => Carries(ArgsOf(LineTokens), "-sd"))) =>
        RejectedLine(SdRejections)

\* a line with a URL, a valid -sd duration and no --night-ops was turned down
C5_Witness ==
    /\ outcome = "err_sd_without_night_ops"
    /\ LongPositive(sd_seconds)
    /\ ~Carries(LineTokens, "--night-ops")
    /\ pc = "loop_top"

\* C6: on the standalone --night-ops path a response that is not affirmative
\* or is unreadable leaves the file system and the session state unchanged and
\* returns to the prompt; only an affirmative response triggers cleanup
\* followed by termination with exit code 0.
C6_StandaloneConfirmation ==
    [][pc = "fgets_night_ops" =>
          IF BeganWithY(ans')
          THEN /\ cleanup_calls' = cleanup_calls + 1
               /\ exit_code' = 0
               /\ pc' = "exited"
          ELSE /\ pc' = "loop_top"
               /\ UNCHANGED <<files, exe_exists, dir_exists, cleanup_calls, exit_code,
                              line, url, args, night_ops, sd_seconds, html, slept>>]_vars

\* a response that contains but does not begin with y canceled the cleanup
C6_Witness ==
    /\ LineTokens = <<"--night-ops">>
    /\ ans = "ny"
    /\ outcome = "night_ops_canceled"
    /\ pc = "loop_top"
    /\ exe_exists

(***************************************************************************)
(* Properties of the filter and render stages                              *)
(***************************************************************************)

\* the flags run_html_mode parsed from the argument list it was given
ScrapeFlags == ParseFlags(args, 1, NoFlags)

\* run_html_mode got as far as its filter loop
FilterRan == outcome \in {"results", "no_urls_matched"}

CategoryLabels == {names[c] : c \in 1..6}

\* the URL lines of the printed output: neither a category label nor a separator
PrintedUrls == SelectSeq(out_lines, LAMBDA l : l # "" /\ l \notin CategoryLabels)

Count(s, x) == Cardinality({k \in 1..Len(s) : s[k] = x})

\* the two sequences hold the same elements the same number of times
SameBag(a, b) ==
    /\ Len(a) = Len(b)
    /\ \A k \in 1..Len(a) : Count(a, a[k]) = Count(b, a[k])

\* the extracted URLs that contain at least one search term (all, without terms)
SearchMatching == SelectSeq(all_urls, LAMBDA u : SearchKeeps(u, ScrapeFlags))

\* C2: with --no-media and at least one category flag the surviving URLs are
\* exactly the search-matching URLs whose category is not flagged; with
\* --no-media and no category flag every search-matching URL survives.
C2_ExclusionInverts ==
    (FilterRan /\ ScrapeFlags.no_media_mode) =>
        SameBag(PrintedUrls,
                SelectSeq(SearchMatching,
                          LAMBDA u : categorize_url(u) \notin ScrapeFlags.use))

\* what the filter loop does with --no-media and a category flag: no URL survives
NoMediaWithFlagKeepsNothing ==
    (FilterRan /\ ScrapeFlags.no_media_mode /\ ScrapeFlags.use # {}) =>
        /\ outcome = "no_urls_matched"
        /\ out_lines = <<>>

\* the URLs that survived filtering into category c, in encounter order
Survivors(c) ==
    SelectSeq(all_urls,
              LAMBDA u : /\ categorize_url(u) = names[c]
                         /\ FilterKeeps(u, categorize_url(u), ScrapeFlags))

\* the printed lines cut at the separator lines; cur is the group being read
RECURSIVE SplitGroups(_, _)
SplitGroups(lines, cur) ==
    IF lines = <<>> THEN (IF cur = <<>> THEN <<>> ELSE <<cur>>)
    ELSE IF Head(lines) = "" THEN <<cur>> \o SplitGroups(Tail(lines), <<>>)
    ELSE SplitGroups(Tail(lines), Append(cur, Head(lines)))

LabelIndex(l) == CHOOSE c \in 1..6 : names[c] = l

\* (extension, full URL) of u is lexicographically at most that of v
ExtUrlLeq(u, v) ==
    \/ strcmp(get_ext(u), get_ext(v)) < 0
    \/ /\ get_ext(u) = get_ext(v)
       /\ strcmp(u, v) <= 0

\* body lists the URLs of category c: the has-extension ones first, ascending,
\* then the no-extension ones as encountered
GroupBodyOrdered(c, body) ==
    /\ SameBag(body, Survivors(c))
    /\ \E k \in 0..Len(body) :
          /\ \A i \in 1..k : get_ext(body[i]) # ""
          /\ \A i \in 1..k : \A j \in (i + 1)..k : ExtUrlLeq(body[i], body[j])
          /\ SubSeq(body, k + 1, Len(body))
                = SelectSeq(Survivors(c), LAMBDA u : get_ext(u) = "")

RenderedGroupsOrdered(groups) ==
    /\ \A g \in 1..Len(groups) :
          /\ Len(groups[g]) >= 2
          /\ groups[g][1] \in CategoryLabels
          /\ GroupBodyOrdered(LabelIndex(groups[g][1]), Tail(groups[g]))
    /\ \A g \in 1..Len(groups) : \A h \in (g + 1)..Len(groups) :
          LabelIndex(groups[g][1]) < LabelIndex(groups[h][1])
    /\ {groups[g][1] : g \in 1..Len(groups)}
          = {names[c] : c \in {d \in 1..6 : Survivors(d) # <<>>}}

\* C9: groups appear in the fixed order SCRIPTS, MEDIA, API/ENDPOINTS,
\* DOCUMENTS/CONFIG, HTML/FRAMEWORK, OTHER with empty groups omitted; within a
\* group the has-extension URLs come first in ascending (extension, full URL)
\* order, then the no-extension URLs in encounter order; the URLs of a group
\* are a permutation of the survivors of that category, duplicates kept.
C9_GroupsOrderedAndSorted ==
    outcome = "results" =>
        /\ out_lines[Len(out_lines)] = ""
        /\ RenderedGroupsOrdered(SplitGroups(out_lines, <<>>))

\* a group was printed whose two has-extension URLs were encountered in the
\* other order and whose no-extension URL comes last
C9_Witness ==
    /\ outcome = "results"
    /\ all_urls = <<"http://h/c", "http://h/m.x", "http://h/m.x">>
    /\ out_lines = <<CAT_OTHER, "http://h/m.x", "http://h/m.x", "http://h/c", "">>

\* two groups were printed, the first sorted by extension against URL order
C9_WitnessByExtension ==
    /\ outcome = "results"
    /\ all_urls = <<"http://h/n", "http://h/a.mjs", "http://h/b.js">>
    /\ out_lines = <<CAT_SCRIPTS, "http://h/b.js", "http://h/a.mjs", "",
                     CAT_OTHER, "http://h/n", "">>

(***************************************************************************)
(* Properties of the extractor and the categorizer                         *)
(***************************************************************************)

SchemeLiterals == <<"http://", "https://", "blob:">>

\* the positions of text where the literal lit occurs
Occurrences(text, lit) ==
    {i \in 1..(Len(text) - Len(lit) + 1) : SubSeq(text, i, i + Len(lit) - 1) = lit}

\* the text from position i up to the first whitespace, quote or angle
\* bracket, or to the end of the text
TokenAt(text, i) ==
    LET stop == {k \in i..Len(text) : IsUrlEnd(Ch(text, k))}
    IN SubSeq(text, i, IF stop = {} THEN Len(text)
                       ELSE (CHOOSE k \in stop : \A j \in stop : k <= j) - 1)

\* the elements of a set of positions in increasing order
RECURSIVE Ascending(_)
Ascending(S) ==
    IF S = {} THEN <<>>
    ELSE LET lo == CHOOSE i \in S : \A j \in S : i <= j
         IN <<lo>> \o Ascending(S \ {lo})

TokensAt(text, S) == [k \in 1..Cardinality(S) |-> TokenAt(text, Ascending(S)[k])]

\* the returned tokens that begin with the literal lit
TokensOfScheme(ret, lit) == SelectSeq(ret, LAMBDA t : HasPrefix(t, lit))

\* C7 as stated: for each scheme literal the extractor returns exactly as many
\* tokens as the text contains occurrences of the literal, each token running
\* from its occurrence to the first whitespace, quote or angle bracket.
C7_OneTokenPerOccurrence ==
    pc = "return_extract_urls_from_html" =>
        \A s \in 1..3 :
            TokensOfScheme(fn_ret, SchemeLiterals[s])
                = TokensAt(fn_arg, Occurrences(fn_arg, SchemeLiterals[s]))

\* the occurrences of lit that do not lie inside a token begun by an earlier
\* occurrence of lit: a terminator separates them from every earlier one
OutsideEarlierToken(text, lit) ==
    {i \in Occurrences(text, lit) :
        \A j \in Occurrences(text, lit) :
            j < i => \E k \in j..(i - 1) : IsUrlEnd(Ch(text, k))}

\* C7: for each scheme literal the extractor returns exactly one token per
\* occurrence of the literal that does not lie inside the token of an earlier
\* occurrence of the same literal, each token running from its occurrence to
\* the first whitespace, quote or angle bracket (or the end of the text); the
\* http:// tokens come first, then the https:// tokens, then the blob: tokens.
C7_OneTokenPerOutermostOccurrence ==
    pc = "return_extract_urls_from_html" =>
        fn_ret = TokensAt(fn_arg, OutsideEarlierToken(fn_arg, "http://"))
                    \o TokensAt(fn_arg, OutsideEarlierToken(fn_arg, "https://"))
                    \o TokensAt(fn_arg, OutsideEarlierToken(fn_arg, "blob:"))

\* a text with three occurrences of one literal, the second inside the token
\* of the first, came back as two tokens
C7_Witness ==
    /\ pc = "return_extract_urls_from_html"
    /\ Cardinality(Occurrences(fn_arg, "http://")) = 3
    /\ Cardinality(OutsideEarlierToken(fn_arg, "http://")) = 2
    /\ Len(fn_ret) = 2

\* url contains the literal /api/
ContainsApi(u) == \E i \in 1..(Len(u) - 4) : SubSeq(u, i, i + 4) = "/api/"

\* url contains graphql in any mix of cases
ContainsGraphql(u) ==
    \E i \in 1..(Len(u) - 6) : LowerStr(SubSeq(u, i, i + 6)) = "graphql"

\* C8: every URL maps to exactly one of the six categories, and a URL that
\* contains /api/ or, in any case, graphql maps to API / ENDPOINTS whatever
\* its extension.
C8_TotalAndApiFirst ==
    pc = "return_categorize_url" =>
        /\ Cardinality({c \in 1..6 : names[c] = fn_ret}) = 1
        /\ (ContainsApi(fn_arg) \/ ContainsGraphql(fn_arg)) => fn_ret = CAT_API

\* a URL under /api/ with a document extension came back as API / ENDPOINTS
C8_Witness ==
    /\ pc = "return_categorize_url"
    /\ fn_arg = "https://h/api/.json"
    /\ fn_ret = CAT_API

\* a URL with GraphQL in mixed case and a script extension came back as API / ENDPOINTS
C8_WitnessGraphql ==
    /\ pc = "return_categorize_url"
    /\ fn_arg = "https://h/GraphQL.JS"
    /\ fn_ret = CAT_API

(***************************************************************************)
(* Properties of duration parsing                                          *)
(***************************************************************************)

\* the argument list holds a -sd: main() assembles its duration text
SdGiven == line # NULL /\ url # NULL /\ SdIndex(ArgsOf(LineTokens)) # 0

\* the duration text of the -sd of the current line, as handed to the parser
SdText == SdDurbuf(ArgsOf(LineTokens), SdIndex(ArgsOf(LineTokens)))

\* d without its whitespace, in lower case
RECURSIVE Squeeze(_)
Squeeze(d) ==
    IF d = "" THEN ""
    ELSE (IF isspace(Ch(d, 1)) THEN "" ELSE tolower(Ch(d, 1))) \o Squeeze(Tail(d))

IsUnit(c) == c \in {"h", "m", "s"}

UnitSeconds(c) == IF c = "h" THEN 3600 ELSE IF c = "m" THEN 60 ELSE 1

AllDigits(c) == \A p \in 1..Len(c) : isdigit(Ch(c, p))

\* c is made of digits and units only, and every unit directly follows a digit
DigitRunsWithUnits(c) ==
    /\ c # ""
    /\ \A p \in 1..Len(c) : isdigit(Ch(c, p)) \/ IsUnit(Ch(c, p))
    /\ \A p \in 1..Len(c) : IsUnit(Ch(c, p)) => (p > 1 /\ isdigit(Ch(c, p - 1)))

\* c is a string of <digits><unit> groups, or bare digits
GroupsOrBareDigits(c) ==
    /\ DigitRunsWithUnits(c)
    /\ IsUnit(Ch(c, Len(c))) \/ AllDigits(c)

\* the decimal number a string of digits writes
RECURSIVE Number(_)
Number(ds) ==
    IF ds = "" THEN 0
    ELSE Number(SubSeq(ds, 1, Len(ds) - 1)) * 10 + DigitVal(Ch(ds, Len(ds)))

\* the number written by the longest run of digits that ends at position e
NumberEndingAt(c, e) ==
    LET before == {p \in 1..e : ~isdigit(Ch(c, p))}
        from == IF before = {} THEN 1
                ELSE 1 + CHOOSE p \in before : \A q \in before : q <= p
    IN Number(SubSeq(c, from, e))

\* hours*3600 + minutes*60 + seconds over the groups of c from position p on;
\* digits that end the string without a unit count as seconds
RECURSIVE SecondsFrom(_, _)
SecondsFrom(c, p) ==
    IF p > Len(c) THEN 0
    ELSE (IF IsUnit(Ch(c, p)) THEN NumberEndingAt(c, p - 1) * UnitSeconds(Ch(c, p))
          ELSE IF p = Len(c) THEN NumberEndingAt(c, p)
          ELSE 0) + SecondsFrom(c, p + 1)

SdTurnedDown ==
    /\ outcome \in {"err_sd_requires_duration", "err_sd_invalid"}
    /\ pc = "loop_top"
    /\ html = NOT_CALLED
    /\ slept = Long(-1)
    /\ cleanup_calls = 0

SdAccepted(seconds) ==
    /\ outcome \notin {"err_sd_requires_duration", "err_sd_invalid"}
    /\ sd_seconds = Long(seconds)
    /\ LongPositive(sd_seconds)

\* C10 as stated: a string of <digits><unit> groups, or bare digits, yields the
\* sum hours*3600 + minutes*60 + seconds; every other input, and every input
\* whose total is not positive, is rejected; an accepted value is >= 1.
C10_OnlyGroupsAccepted ==
    SdGiven =>
        IF GroupsOrBareDigits(Squeeze(SdText)) /\ SecondsFrom(Squeeze(SdText), 1) > 0
        THEN SdAccepted(SecondsFrom(Squeeze(SdText), 1))
        ELSE SdTurnedDown

\* C10: a string of <digits><unit> groups with unit h, m or s (whitespace
\* ignored, case-insensitive), whose last group may leave out its unit and is
\* then counted as seconds, yields the sum hours*3600 + minutes*60 + seconds
\* (bare digits yield that number of seconds); every other input, and every
\* input whose total is not positive, is rejected, so an accepted -sd value is
\* always an integer >= 1.
C10_GroupsWithOptionalLastUnit ==
    SdGiven =>
        IF DigitRunsWithUnits(Squeeze(SdText)) /\ SecondsFrom(Squeeze(SdText), 1) > 0
        THEN SdAccepted(SecondsFrom(Squeeze(SdText), 1))
        ELSE SdTurnedDown

\* a duration in two tokens whose last group has no unit was accepted
C10_Witness ==
    /\ SdGiven
    /\ SdText = "1h 3"
    /\ sd_seconds = Long(3603)
    /\ pc = "fetch_html"

\* a duration of groups that add up to zero was turned down
C10_WitnessZero ==
    /\ SdGiven
    /\ SdText = "0h0m"
    /\ outcome = "err_sd_invalid"

(***************************************************************************)
(* URL detection                                                           *)
(***************************************************************************)

\* longest line of the URL detection runs, in tokens
MaxDetectTok == 3

DetectTokens == {"-u", "-md", "-s", "example.com", "www.x.com", "http://x", "out"}

DetectLines == {JoinSp(ts) : ts \in TokenSeqs(DetectTokens, MaxDetectTok)}

ReadDetectLine == pc = "fgets_line" /\ \E l \in DetectLines : ReadLine(l)

NextDetect ==
    \/ LoopTop
    \/ ReadEof
    \/ ReadDetectLine
    \/ FetchCmdPage

SpecDetect == Init /\ [][NextDetect]_vars

IsFlagToken(t) == Ch(t, 1) = "-"

LooksLikeUrl(t) ==
    HasPrefix(t, "http://") \/ HasPrefix(t, "https://") \/ HasPrefix(t, "www.")

\* the least element of a set of positions, 0 for the empty set
Least(S) == IF S = {} THEN 0 ELSE CHOOSE k \in S : \A j \in S : k <= j

\* the line went through URL parsing: it is not empty, not help, not standalone night-ops
UrlParsed ==
    /\ line # NULL
    /\ Len(LineTokens) > 0
    /\ LineTokens \notin {<<"-h">>, <<"--help">>, <<"--night-ops">>}

\* the line was measured against the detected token at position k of t (0: none)
DetectedAt(t, k) ==
    IF k = 0
    THEN /\ outcome = "no_url"
         /\ url = NULL
         /\ pc = "loop_top"
    ELSE /\ outcome # "no_url"
         /\ url = normalize_url(t[k])
         /\ args = SubSeq(t, k + 1, Len(t))

\* the position the three rules pick when each looks at the whole line
PickedAnywhere(t) ==
    IF Least({k \in 1..(Len(t) - 1) : t[k] = "-u"}) # 0
    THEN Least({k \in 1..(Len(t) - 1) : t[k] = "-u"}) + 1
    ELSE IF Least({k \in 1..Len(t) : ~IsFlagToken(t[k])}) # 0
    THEN Least({k \in 1..Len(t) : ~IsFlagToken(t[k])})
    ELSE Least({k \in 1..Len(t) : LooksLikeUrl(t[k])})

\* C11 as stated: the URL is the value of an explicit -u pair, else the first
\* token of the line that does not start with -, else the first token starting
\* with http://, https:// or www.; no URL is detected only when none matches.
C11_DetectsAnywhere ==
    UrlParsed => DetectedAt(LineTokens, PickedAnywhere(LineTokens))

\* the position the three rules pick when the first two look at the head of the line
PickedAtHead(t) ==
    IF t[1] = "-u" /\ Len(t) >= 2 THEN 2
    ELSE IF ~IsFlagToken(t[1]) THEN 1
    ELSE Least({k \in 1..Len(t) : LooksLikeUrl(t[k])})

\* C11: the URL is the second token when the first token is -u and a second
\* exists; else the first token of the line when it does not start with -;
\* else the first token starting with http://, https:// or www.; no URL is
\* detected exactly when none of these matches, and the tokens after the
\* detected one are the argument list.
C11_DetectsAtHeadThenScans ==
    UrlParsed => DetectedAt(LineTokens, PickedAtHead(LineTokens))

\* flags before a token that looks like a URL: the scan found it
C11_Witness ==
    /\ LineTokens = <<"-md", "-s", "www.x.com">>
    /\ url = "https://www.x.com"
    /\ pc = "fetch_html"

\* flags before a bare host: no URL is detected
C11_WitnessBareHost ==
    /\ LineTokens = <<"-md", "example.com">>
    /\ outcome = "no_url"
    /\ pc = "loop_top"

(***************************************************************************)
(* The output file                                                         *)
(***************************************************************************)

\* most flag groups on a line of the output-file runs
MaxOutFlags == 2

\* most URLs on a page of the output-file runs
MaxOutUrls == 2

OutFlagGroups == {"-o f", "-s", "-md"}

OutLines == {JoinSp(<<"x.com">> \o gs) : gs \in TokenSeqs(OutFlagGroups, MaxOutFlags)}

OutPages ==
    {JoinSp(us) : us \in TokenSeqs({"http://h/b.js", "http://h/n"}, MaxOutUrls)}
        \cup {NULL}

ReadOutLine == pc = "fgets_line" /\ \E l \in OutLines : ReadLine(l)

FetchOutPage == pc = "fetch_html" /\ \E body \in OutPages : FetchReturn(body)

NextOutput ==
    \/ LoopTop
    \/ ReadEof
    \/ ReadOutLine
    \/ FetchOutPage

SpecOutput == Init /\ [][NextOutput]_vars

\* a non-full scrape with -o <path> ran, its fetch succeeded, and no write
\* failure was reported
ScrapedToFile ==
    /\ html \notin {NULL, NOT_CALLED}
    /\ ScrapeFlags.output_file # NULL
    /\ ~ScrapeFlags.full_mode
    /\ ~write_failed

\* C12: after every non-full scrape with -o <path> whose fetch succeeded and
\* whose file is writable, the file at <path> holds exactly the result lines
\* this invocation wrote to standard output, and nothing of an earlier
\* invocation, also when the filters of this invocation match no URL.
C12_FileHoldsThisOutput ==
    ScrapedToFile =>
        {e \in files : e[1] = ScrapeFlags.output_file}
            = {<<ScrapeFlags.output_file, out_lines>>}

\* what the output block does: the file is rewritten only when lines were printed
FileRewrittenWhenLinesPrinted ==
    (ScrapedToFile /\ outcome = "results") =>
        {e \in files : e[1] = ScrapeFlags.output_file}
            = {<<ScrapeFlags.output_file, out_lines>>}

\* an invocation that matched no URL left the lines of an earlier one in the file
StaleOutputFile ==
    /\ ScrapedToFile
    /\ outcome = "no_urls_matched"
    /\ out_lines = <<>>
    /\ \E e \in files : e[1] = ScrapeFlags.output_file /\ e[2] # <<>>

(***************************************************************************)
(* Scheduled night-ops with long delays                                    *)
(***************************************************************************)

\* most <digits><unit> groups of a delay
MaxSleepGroups == 2

SleepGroups == {"90s", "1h", "4294967296s", "71582789m", "1193047h"}

SleepLines ==
    {JoinSp(<<"x.com", "--night-ops", "-sd">> \o gs) :
        gs \in TokenSeqs(SleepGroups, MaxSleepGroups)}

ReadSleepLine == pc = "fgets_line" /\ \E l \in SleepLines : ReadLine(l)

NextSleep ==
    \/ LoopTop
    \/ ReadEof
    \/ ReadSleepLine
    \/ FetchCmdPage

SpecSleep == Init /\ [][NextSleep]_vars

\* the command parser accepted a delay for a scheduled night-ops line
DelayAccepted ==
    /\ night_ops
    /\ LongPositive(sd_seconds)
    /\ outcome \notin {"err_sd_requires_duration", "err_sd_invalid",
                       "err_sd_without_night_ops", "err_night_ops_without_sd"}

\* C13: on the scheduled night-ops path, for every accepted delay d, the
\* process runs the scrape first, then suspends for exactly d seconds, then
\* performs cleanup and exits 0; the suspended time equals the parsed value,
\* also at or above 2^32 seconds.
C13_SleepsExactlyParsedDelay ==
    DelayAccepted =>
        IF html = NOT_CALLED
        THEN /\ slept = Long(-1)
             /\ cleanup_calls = 0
             /\ exit_code = -1
        ELSE /\ slept = sd_seconds
             /\ cleanup_calls = 1
             /\ exit_code = 0
             /\ pc = "exited"

\* what the scheduled block does: the argument of sleep is the delay modulo 2^32
SleepsDelayModulo2to32 ==
    (DelayAccepted /\ html # NOT_CALLED) =>
        /\ slept.lo = sd_seconds.lo
        /\ slept.hi = sd_seconds.hi % Limb
        /\ cleanup_calls = 1
        /\ exit_code = 0
        /\ pc = "exited"

\* a delay of 2^32 seconds was accepted and the process did not suspend at all
SleptZeroFor2to32 ==
    /\ LineTokens = <<"x.com", "--night-ops", "-sd", "4294967296s">>
    /\ sd_seconds = [hi |-> Limb, lo |-> 0]
    /\ slept = Long(0)
    /\ cleanup_calls = 1
    /\ pc = "exited"

(***************************************************************************)
(* Bundles and chunks                                                      *)
(***************************************************************************)

\* u contains the text t
ContainsText(u, t) ==
    \E i \in 1..(Len(u) - Len(t) + 1) : SubSeq(u, i, i + Len(t) - 1) = t

\* C14: every URL that does not match the API rule and contains .bundle.js or
\* .chunk.js is categorized HTML / FRAMEWORK.
C14_BundlesAreFramework ==
    (/\ pc = "return_categorize_url"
     /\ ~ContainsApi(fn_arg)
     /\ ~ContainsGraphql(fn_arg)
     /\ ContainsText(fn_arg, ".bundle.js") \/ ContainsText(fn_arg, ".chunk.js")) =>
        fn_ret = CAT_HTML

\* what the categorizer does: a bundle or chunk is HTML / FRAMEWORK unless the
\* extension test for scripts, media or documents took it first
BundlesAfterExtensions ==
    (/\ pc = "return_categorize_url"
     /\ ~ContainsApi(fn_arg)
     /\ ~ContainsGraphql(fn_arg)
     /\ ContainsText(fn_arg, ".bundle.js") \/ ContainsText(fn_arg, ".chunk.js")) =>
        fn_ret = IF LowerStr(get_ext(fn_arg)) \in {".js", ".mjs"} THEN CAT_SCRIPTS
                 ELSE IF LowerStr(get_ext(fn_arg)) \in {".png", ".json"}
                 THEN categorize_url("https://h" \o get_ext(fn_arg))
                 ELSE CAT_HTML

\* a URL that ends in .bundle.js came back as SCRIPTS
BundleIsScript ==
    /\ pc = "return_categorize_url"
    /\ fn_arg = "https://h/x.bundle.js"
    /\ fn_ret = CAT_SCRIPTS

\* a URL with .bundle.js before a further path segment came back as HTML / FRAMEWORK
BundleInPathIsFramework ==
    /\ pc = "return_categorize_url"
    /\ fn_arg = "https://h.bundle.js/x"
    /\ fn_ret = CAT_HTML

(***************************************************************************)
(* Network mode before everything else                                     *)
(***************************************************************************)

\* most token groups on a line
MaxNetGroups == 4

NetGroups == {"-n", "--night-ops", "-sd 90s", "-sd", "https://x.com", "--bogus"}

NetLines == {JoinSp(gs) : gs \in TokenSeqs(NetGroups, MaxNetGroups)}

ReadNetLine == pc = "fgets_line" /\ \E l \in NetLines : ReadLine(l)

NextNet ==
    \/ LoopTop
    \/ ReadEof
    \/ ReadNetLine
    \/ AnswerNightOps
    \/ AnswerNetMode
    \/ FetchCmdPage

SpecNet == Init /\ [][NextNet]_vars

\* the argument list a passes the -sd and night-ops checks: no -sd and no
\* --night-ops at all, or --night-ops with a first -sd whose duration is positive
PassesSdChecks(a) ==
    IF SdIndex(a) = 0 THEN ~Carries(a, "--night-ops")
    ELSE /\ Carries(a, "--night-ops")
         /\ SdDurbuf(a, SdIndex(a)) # ""
         /\ LongPositive(parse_duration_seconds(SdDurbuf(a, SdIndex(a))))

\* a URL was detected on the line and its argument list passes the checks
UrlLinePassesChecks ==
    /\ Len(LineTokens) >= 2
    /\ ParseUrl(LineTokens).url # NULL
    /\ PassesSdChecks(ArgsOf(LineTokens))

\* the line is on the network mode stub path and nothing else happened for it
StubPathOnly ==
    /\ pc \in {"fgets_net_mode", "loop_top"}
    /\ outcome = IF pc = "fgets_net_mode" THEN "net_mode"
                 ELSE IF BeganWithY(ans) THEN "net_mode_unsupported"
                 ELSE "net_mode_canceled"
    /\ html = NOT_CALLED
    /\ slept = Long(-1)
    /\ cleanup_calls = 0
    /\ exit_code = -1

\* whatever is answered at the warning prompt, the session goes back to the
\* Main URL prompt without a fetch, a sleep or a cleanup
WarningAnswered ==
    pc = "fgets_net_mode" =>
        /\ pc' = "loop_top"
        /\ html' = NOT_CALLED
        /\ slept' = Long(-1)
        /\ cleanup_calls' = 0
        /\ exit_code' = -1
        /\ files' = files

\* C15 as stated: whenever a line with a detected URL carries -n and passes
\* the night-ops/-sd checks, the session takes the network mode stub path and
\* nothing else, and returns to the Main URL prompt.
C15_AnyNLineIsStub ==
    /\ []((UrlLinePassesChecks /\ Carries(LineTokens, "-n")) => StubPathOnly)
    /\ [][WarningAnswered]_vars

\* C15: whenever a line with a detected URL carries -n in its argument list
\* (after the URL) and passes the night-ops/-sd checks, the session takes the
\* network mode stub path and nothing else: no fetch, no sleep and no cleanup,
\* also with a valid --night-ops -sd, whatever the answer to the warning, and
\* the session returns to the Main URL prompt.
C15_NInArgsIsStub ==
    /\ []((UrlLinePassesChecks /\ Carries(ArgsOf(LineTokens), "-n")) => StubPathOnly)
    /\ [][WarningAnswered]_vars

\* a scheduled night-ops line with -n was answered y and is back at the prompt
C15_Witness ==
    /\ LineTokens = <<"https://x.com", "--night-ops", "-sd", "90s", "-n">>
    /\ night_ops
    /\ sd_seconds = Long(90)
    /\ ans = "y"
    /\ outcome = "net_mode_unsupported"
    /\ pc = "loop_top"
    /\ html = NOT_CALLED
    /\ slept = Long(-1)
    /\ cleanup_calls = 0

\* a line with -n before the URL was scheduled, slept and cleaned up
NBeforeUrlSelfDestructs ==
    /\ LineTokens = <<"-n", "https://x.com", "--night-ops", "-sd", "90s">>
    /\ slept = Long(90)
    /\ cleanup_calls = 1
    /\ pc = "exited"

====
